---- MODULE Spec2Model ----
(***************************************************************************)
(* Member directory (pyjo-lightning): the validators of app/validation.py, *)
(* the CRUD operations of app/crud.py and the members table of             *)
(* app/models.py, with one database session per call (app/database.py).    *)
(*                                                                         *)
(* A Python str is a sequence of one-character strings; Python's None is   *)
(* the value None below.                                                   *)
(***************************************************************************)
EXTENDS Integers, Sequences, FiniteSets, TLC

(***************************************************************************)
(* Characters and strings                                                  *)
(***************************************************************************)
None == <<"<None>">>

LowerSeq == <<"a","b","c","d","e","f","g","h","i","j","k","l","m",
              "n","o","p","q","r","s","t","u","v","w","x","y","z">>
UpperSeq == <<"A","B","C","D","E","F","G","H","I","J","K","L","M",
              "N","O","P","Q","R","S","T","U","V","W","X","Y","Z">>

Range(s) == { s[i] : i \in DOMAIN s }

LowerLetters == Range(LowerSeq)
UpperLetters == Range(UpperSeq)
Letters == LowerLetters \cup UpperLetters
Digits == {"0","1","2","3","4","5","6","7","8","9"}
\* what str.strip() removes and the regex class \s matches (ASCII)
Whitespace == {" ", "\t", "\n", "\r", "\f"}

\* str.lower() on one character
LowerChar(c) ==
    IF c \in UpperLetters
    THEN LowerSeq[CHOOSE i \in DOMAIN UpperSeq : UpperSeq[i] = c]
    ELSE c

\* str.lower()
Lower(s) == [i \in DOMAIN s |-> LowerChar(s[i])]

\* str.strip(): drop leading and trailing whitespace
Strip(s) ==
    LET keep == { i \in DOMAIN s : s[i] \notin Whitespace }
    IN  IF keep = {} THEN << >>
        ELSE LET lo == CHOOSE i \in keep : \A j \in keep : i <= j
                 hi == CHOOSE i \in keep : \A j \in keep : j <= i
             IN  SubSeq(s, lo, hi)

\* re.sub(chars, '', s): s without the characters of chars
RemoveChars(s, chars) == SelectSeq(s, LAMBDA c : c \notin chars)

AllIn(s, chars) == \A i \in DOMAIN s : s[i] \in chars

\* 'ab' in s, for a two-character needle
ContainsPair(s, a, b) ==
    \E i \in DOMAIN s : i + 1 \in DOMAIN s /\ s[i] = a /\ s[i + 1] = b

(***************************************************************************)
(* app/validation.py                                                       *)
(***************************************************************************)
MinNameLen == 2
MaxNameLen == 100
MaxEmailLen == 254
MaxPhoneLen == 20
MinPhoneDigits == 8
MaxPhoneDigits == 15
MinTldLen == 2

Ok(v) == [ok |-> TRUE, value |-> v]
Invalid(f) == [ok |-> FALSE, field |-> f]

\* r"^[a-zA-Z0-9\s\-'\.]+$"
NameChars == Letters \cup Digits \cup Whitespace \cup {"-", "'", "."}

validate_name(name) ==
    IF name = None \/ name = << >> THEN Invalid("name")
    ELSE LET normalized_name == Strip(name)
         IN  IF normalized_name = << >> THEN Invalid("name")
             ELSE IF Len(normalized_name) < MinNameLen THEN Invalid("name")
             ELSE IF Len(normalized_name) > MaxNameLen THEN Invalid("name")
             ELSE IF ~AllIn(normalized_name, NameChars) THEN Invalid("name")
             ELSE Ok(normalized_name)

\* r'^[a-zA-Z0-9._%+-]+@[a-zA-Z0-9.-]+\.[a-zA-Z]{2,}$'
EmailLocalChars == Letters \cup Digits \cup {".", "_", "%", "+", "-"}
EmailDomainChars == Letters \cup Digits \cup {".", "-"}

EmailPatternMatches(s) ==
    \E at \in DOMAIN s : \E dot \in DOMAIN s :
        /\ s[at] = "@"
        /\ s[dot] = "."
        /\ at > 1
        /\ AllIn(SubSeq(s, 1, at - 1), EmailLocalChars)
        /\ dot > at + 1
        /\ AllIn(SubSeq(s, at + 1, dot - 1), EmailDomainChars)
        /\ Len(s) - dot >= MinTldLen
        /\ AllIn(SubSeq(s, dot + 1, Len(s)), Letters)

\* faulty variant: the email is trimmed and its case kept
validate_email_KeepCase(email) ==
    IF email = None \/ email = << >> THEN Invalid("email")
    ELSE LET normalized_email == Strip(email)
         IN  IF normalized_email = << >> \/ ~EmailPatternMatches(normalized_email)
             THEN Invalid("email")
             ELSE Ok(normalized_email)

\* faulty variant: one whitespace character is taken off the front, the
\* checks are made on the fully trimmed email
validate_email_StripOnce(email) ==
    IF email = None \/ email = << >> THEN Invalid("email")
    ELSE LET once == IF Head(email) \in Whitespace THEN Tail(email) ELSE email
             normalized_email == Lower(Strip(email))
         IN  IF normalized_email = << >> \/ ~EmailPatternMatches(normalized_email)
             THEN Invalid("email")
             ELSE Ok(Lower(once))

validate_email(email) ==
    IF email = None \/ email = << >> THEN Invalid("email")
    ELSE LET normalized_email == Lower(Strip(email))
         IN  IF normalized_email = << >> THEN Invalid("email")
             ELSE IF Len(normalized_email) > MaxEmailLen THEN Invalid("email")
             ELSE IF ~EmailPatternMatches(normalized_email) THEN Invalid("email")
             ELSE IF ContainsPair(normalized_email, ".", ".") THEN Invalid("email")
             ELSE IF normalized_email[1] = "."
                     \/ normalized_email[Len(normalized_email)] = "."
                  THEN Invalid("email")
             ELSE Ok(normalized_email)

\* r'[\s\-\(\)\+\.]'
PhoneFormatChars == Whitespace \cup {"-", "(", ")", "+", "."}

\* faulty variant: the phone is returned without its formatting characters
validate_phone_Canonical(phone) ==
    IF phone = None THEN Ok(None)
    ELSE LET clean_phone == RemoveChars(Strip(phone), PhoneFormatChars)
         IN  IF Strip(phone) = << >> THEN Ok(None)
             ELSE IF clean_phone = << >> \/ ~AllIn(clean_phone, Digits)
                     \/ Len(clean_phone) < MinPhoneDigits
                     \/ Len(clean_phone) > MaxPhoneDigits
                  THEN Invalid("phone")
             ELSE Ok(clean_phone)

validate_phone(phone) ==
    IF phone = None THEN Ok(None)
    ELSE LET normalized_phone == Strip(phone)
             clean_phone == RemoveChars(normalized_phone, PhoneFormatChars)
         IN  IF normalized_phone = << >> THEN Ok(None)
             ELSE IF Len(normalized_phone) > MaxPhoneLen THEN Invalid("phone")
             ELSE IF clean_phone = << >> \/ ~AllIn(clean_phone, Digits)
                  THEN Invalid("phone")
             ELSE IF Len(clean_phone) < MinPhoneDigits THEN Invalid("phone")
             ELSE IF Len(clean_phone) > MaxPhoneDigits THEN Invalid("phone")
             ELSE Ok(normalized_phone)

\* faulty variant: the email is validated before the name
validate_member_data_EmailFirst(name, email, phone) ==
    LET n == validate_name(name)
        e == validate_email(email)
        p == validate_phone(phone)
    IN  IF ~e.ok THEN e
        ELSE IF ~n.ok THEN n
        ELSE IF ~p.ok THEN p
        ELSE [ok |-> TRUE, name |-> n.value, email |-> e.value, phone |-> p.value]

\* the three validators in order; the first failure is the one raised
validate_member_data(name, email, phone) ==
    LET n == validate_name(name)
        e == validate_email(email)
        p == validate_phone(phone)
    IN  IF ~n.ok THEN n
        ELSE IF ~e.ok THEN e
        ELSE IF ~p.ok THEN p
        ELSE [ok |-> TRUE, name |-> n.value, email |-> e.value, phone |-> p.value]

(***************************************************************************)
(* app/exceptions.py: what a call ends with                                *)
(***************************************************************************)
NoMember == [id |-> 0, name |-> None, email |-> None, phone |-> None]

\* a call's outcome: kind "ok" with the member or the rows returned, or the
\* exception raised, with its field and value
Outcome(k, f, v, m, l) ==
    [kind |-> k, field |-> f, value |-> v, member |-> m, rows |-> l]

NoResult == Outcome("none", "", << >>, NoMember, << >>)
Returned(m) == Outcome("ok", "", << >>, m, << >>)
ReturnedRows(l) == Outcome("ok", "", << >>, NoMember, l)
InvalidMemberDataError(f, v) == Outcome("InvalidField", f, v, NoMember, << >>)
MemberAlreadyExistsError(f, v) == Outcome("AlreadyExists", f, v, NoMember, << >>)
\* faulty variant: NotFound is missing from the except clause that re-raises,
\* and the catch-all wraps it
MemberNotFoundErrorWrapped(f, v) ==
    Outcome("StoreError", "update_member", << >>, NoMember, << >>)

MemberNotFoundError(f, v) == Outcome("NotFound", f, v, NoMember, << >>)
DatabaseOperationError(operation) ==
    Outcome("StoreError", operation, << >>, NoMember, << >>)
\* an exception that is none of the four classes above leaves the call
UncaughtException(operation) ==
    Outcome("Uncaught", operation, << >>, NoMember, << >>)

ErrorKinds == {"InvalidField", "AlreadyExists", "NotFound", "StoreError"}

\* str(member_id)
DigitSeq == <<"0","1","2","3","4","5","6","7","8","9">>
RECURSIVE IntToStr(_)
IntToStr(n) ==
    IF n < 10 THEN <<DigitSeq[n + 1]>>
    ELSE IntToStr(n \div 10) \o <<DigitSeq[(n % 10) + 1]>>

\* faulty variant: the phone is looked up whether or not one was given
TruthyAlways(s) == TRUE

\* Python truthiness of an Optional[str]
Truthy(s) == s # None /\ s # << >>

(***************************************************************************)
(* The members table (app/models.py) and the calls in flight               *)
(***************************************************************************)
NumCalls == 3

Calls == 1 .. NumCalls

\* a field an update request does not carry
Unset == <<"<unset>">>

VARIABLES
    members,    \* the committed rows of the members table
    pc,         \* where each call stands
    req,        \* the arguments each call was made with
    loc,        \* each call's local variables: validated fields and loaded row
    result,     \* what each call returned or raised
    wrote,      \* whether a commit of the call has changed the table
    raced,      \* pairs of creates of one email that were both past the
                \* email pre-check with neither committed
    violated,   \* the unique columns on which the store rejected the
                \* call's commit
    faults      \* store failures injected so far

vars == <<members, pc, req, loc, result, wrote, raced, violated, faults>>

NoRequest ==
    [op |-> "none", id |-> 0, name |-> None, email |-> None, phone |-> None,
     skip |-> 0, limit |-> 0]
NoLocals == [name |-> Unset, email |-> Unset, phone |-> Unset, member |-> NoMember]

\* select ... .first(): no ORDER BY, the row of lowest rowid
First(rows) ==
    IF rows = {} THEN NoMember
    ELSE CHOOSE r \in rows : \A q \in rows : r.id <= q.id

get_member_by_email(email) ==
    First({ r \in members : r.email = Lower(email) })

\* faulty variant: the phone lookup finds nothing
get_member_by_phone_Nothing(phone) == NoMember

get_member_by_phone(phone) ==
    First({ r \in members : r.phone = phone })

\* faulty variant: the lookup leaves the id out of its WHERE clause
get_member_by_id_AnyRow(member_id) == First(members)

get_member_by_id(member_id) ==
    First({ r \in members : r.id = member_id })

\* INTEGER PRIMARY KEY of SQLite: one more than the largest id in use
NextId ==
    LET ids == { r.id : r \in members } \cup {0}
    IN  (CHOOSE i \in ids : \A j \in ids : j <= i) + 1

\* faulty variants: the table without the unique index on email, on phone
UniqueViolationsNoEmailIndex(row) ==
    { col \in {"phone"} :
        \E r \in members :
            r.id # row.id /\ row.phone # None /\ r.phone = row.phone }

UniqueViolationsNoPhoneIndex(row) ==
    { col \in {"email"} :
        \E r \in members : r.id # row.id /\ r.email = row.email }

\* the unique indexes of Member: the columns on which row would collide with
\* a row of another id (NULL phones never collide)
UniqueViolations(row) ==
    { col \in {"email", "phone"} :
        \E r \in members :
            /\ r.id # row.id
            /\ IF col = "email" THEN r.email = row.email
               ELSE row.phone # None /\ r.phone = row.phone }

\* str(e).lower() of an IntegrityError, as the column names that occur in it:
\* the driver's message names the violated column, and the text goes on with
\* the SQL statement, which names every column it writes
IntegrityErrorText(column, statementColumns) ==
    {column} \cup statementColumns

InsertColumns == {"name", "email", "phone"}

Init ==
    /\ members = {}
    /\ pc = [c \in Calls |-> "idle"]
    /\ req = [c \in Calls |-> NoRequest]
    /\ loc = [c \in Calls |-> NoLocals]
    /\ result = [c \in Calls |-> NoResult]
    /\ wrote = [c \in Calls |-> FALSE]
    /\ raced = {}
    /\ violated = [c \in Calls |-> {}]
    /\ faults = 0

Goto(c, label) == pc' = [pc EXCEPT ![c] = label]
SetLocals(c, l) == loc' = [loc EXCEPT ![c] = l]

\* the call returns
Return(c, res) ==
    /\ pc' = [pc EXCEPT ![c] = "done"]
    /\ result' = [result EXCEPT ![c] = res]

\* an exception reaches the except clauses of a write operation, which roll
\* the session back before raising
Raise(c, err) ==
    /\ pc' = [pc EXCEPT ![c] = "rollback"]
    /\ result' = [result EXCEPT ![c] = err]

(***************************************************************************)
(* The requests the calls are made with                                    *)
(***************************************************************************)
NameJo == <<"J","o">>
NameAl == <<" ","A","l">>
NameBad == <<"J">>
EmailA == <<"a","@","b",".","c","c">>
EmailAUpper == <<"A","@","B",".","c","c">>
EmailAPadded == <<" ","A","@","b",".","c","c">>
EmailX == <<"x","@","b",".","c","c">>
EmailBad == <<"a","@","b">>
Phone1 == <<"1","2","3","-","4","5","6","7","8">>
PhonePadded == <<" ","1","2","3","-","4","5","6","7","8"," ">>
PhoneBlank == <<" ">>
PhoneBad == <<"1","2","3","-","a","b","c","7","8">>

\* the placeholders update_member validates a single field with
DummyName == <<"D","u","m","m","y">>
\* faulty variant: a placeholder email that does not pass validate_email
DummyEmailInvalid == <<"d","u","m","m","y">>
DummyEmail == <<"d","u","m","m","y","@","e","x","a","m","p","l","e",".","c","o","m">>

Request(o, i, n, e, p) ==
    [op |-> o, id |-> i, name |-> n, email |-> e, phone |-> p,
     skip |-> 0, limit |-> 0]
CreateRequest(n, e, p) == Request("create", 0, n, e, p)
UpdateRequest(i, n, e, p) == Request("update", i, n, e, p)
DeleteRequest(i) == Request("delete", i, None, None, None)

\* two spellings of one email and a second email, with and without a phone,
\* and one request that fails validation
CreateRequests ==
    { CreateRequest(NameJo, EmailA, None),
      CreateRequest(NameJo, EmailAPadded, Phone1),
      CreateRequest(NameJo, EmailX, Phone1),
      CreateRequest(NameBad, EmailAUpper, None) }

\* updates of one field: an email or a phone another member may hold, a phone
\* given up, a name
UpdateRequests ==
    { UpdateRequest(1, None, EmailX, None),
      UpdateRequest(2, None, EmailAUpper, None),
      UpdateRequest(2, None, None, Phone1),
      UpdateRequest(2, None, None, PhoneBlank),
      UpdateRequest(1, NameAl, None, None) }

DeleteRequests == { DeleteRequest(1), DeleteRequest(2) }

\* calls are made in the order of their numbers
MayBegin(c) ==
    /\ pc[c] = "idle"
    /\ \A d \in Calls : d < c => pc[d] # "idle"

Begin(c, request) ==
    /\ MayBegin(c)
    /\ req' = [req EXCEPT ![c] = request]
    /\ pc' = [pc EXCEPT ![c] = request.op]
    /\ UNCHANGED <<members, loc, result, wrote, raced, violated, faults>>

BeginCreate(c) == \E request \in CreateRequests : Begin(c, request)
BeginUpdate(c) == \E request \in UpdateRequests : Begin(c, request)
BeginDelete(c) == \E request \in DeleteRequests : Begin(c, request)

(***************************************************************************)
(* app/crud.py: create_member                                              *)
(***************************************************************************)
\* faulty variant: no except IntegrityError clause, the catch-all takes it
IntegrityErrorHandlerMissing(operation, text, emailValue, phoneValue) ==
    DatabaseOperationError(operation)

\* the except IntegrityError clauses: the field is read off the error text
IntegrityErrorHandler(operation, text, emailValue, phoneValue) ==
    IF "email" \in text THEN MemberAlreadyExistsError("email", emailValue)
    ELSE IF "phone" \in text THEN MemberAlreadyExistsError("phone", phoneValue)
    ELSE DatabaseOperationError(operation)

\* creates of the same email that are past the email pre-check, uncommitted
CreatesPending(c, email) ==
    { d \in Calls \ {c} :
        /\ req[d].op = "create"
        /\ pc[d] \in {"c_phone", "c_commit"}
        /\ loc[d].email = email }

\* faulty variant: the phone is looked up before the email
CreateStartPhoneFirst(c) ==
    /\ pc[c] = "create"
    /\ LET v == validate_member_data(req[c].name, req[c].email, req[c].phone)
       IN  IF ~v.ok
           THEN /\ Raise(c, InvalidMemberDataError(v.field, req[c][v.field]))
                /\ UNCHANGED <<loc, raced, violated>>
           ELSE IF Truthy(v.phone) /\ get_member_by_phone(v.phone).id # 0
           THEN /\ Raise(c, MemberAlreadyExistsError("phone", v.phone))
                /\ UNCHANGED <<loc, raced, violated>>
           ELSE IF get_member_by_email(v.email).id # 0
           THEN /\ Raise(c, MemberAlreadyExistsError("email", v.email))
                /\ UNCHANGED <<loc, raced, violated>>
           ELSE /\ SetLocals(c, [name |-> v.name, email |-> v.email,
                                 phone |-> v.phone, member |-> NoMember])
                /\ Goto(c, "c_commit")
                /\ raced' = raced \cup { {c, d} : d \in CreatesPending(c, v.email) }
                /\ UNCHANGED result
    /\ UNCHANGED <<members, req, wrote, violated, faults>>

\* steps 1 and 2: validate, then look the email up
CreateStart(c) ==
    /\ pc[c] = "create"
    /\ LET v == validate_member_data(req[c].name, req[c].email, req[c].phone)
       IN  IF ~v.ok
           THEN /\ Raise(c, InvalidMemberDataError(v.field, req[c][v.field]))
                /\ UNCHANGED <<loc, raced, violated>>
           ELSE IF get_member_by_email(v.email).id # 0
           THEN /\ Raise(c, MemberAlreadyExistsError("email", v.email))
                /\ UNCHANGED <<loc, raced, violated>>
           ELSE /\ SetLocals(c, [name |-> v.name, email |-> v.email,
                                 phone |-> v.phone, member |-> NoMember])
                /\ Goto(c, IF Truthy(v.phone) THEN "c_phone" ELSE "c_commit")
                /\ raced' = raced \cup { {c, d} : d \in CreatesPending(c, v.email) }
                /\ UNCHANGED result
    /\ UNCHANGED <<members, req, wrote, violated, faults>>

\* step 3: look the phone up
CreatePhoneCheck(c) ==
    /\ pc[c] = "c_phone"
    /\ IF get_member_by_phone(loc[c].phone).id # 0
       THEN Raise(c, MemberAlreadyExistsError("phone", loc[c].phone))
       ELSE Goto(c, "c_commit") /\ UNCHANGED result
    /\ UNCHANGED <<members, req, loc, wrote, raced, violated, faults>>

\* step 4: session.add, session.commit
CreateCommit(c) ==
    /\ pc[c] = "c_commit"
    /\ LET new_member == [id |-> NextId, name |-> loc[c].name,
                          email |-> loc[c].email, phone |-> loc[c].phone]
           violations == UniqueViolations(new_member)
       IN  IF violations # {}
           THEN /\ \E col \in violations :
                     Raise(c, IntegrityErrorHandler("create_member",
                              IntegrityErrorText(col, InsertColumns),
                              loc[c].email,
                              IF Truthy(loc[c].phone) THEN loc[c].phone ELSE << >>))
                /\ violated' = [violated EXCEPT ![c] = violations]
                /\ UNCHANGED <<members, loc, wrote>>
           ELSE /\ members' = members \cup {new_member}
                /\ wrote' = [wrote EXCEPT ![c] = TRUE]
                /\ SetLocals(c, [loc[c] EXCEPT !.member = new_member])
                /\ Goto(c, "c_refresh")
                /\ UNCHANGED <<result, violated>>
    /\ UNCHANGED <<req, raced, faults>>

\* session.refresh: reads the row back by its id; a row that is gone makes
\* refresh raise, which the except Exception clause turns into a store error
Refresh(c, label, operation) ==
    /\ pc[c] = label
    /\ LET row == get_member_by_id(loc[c].member.id)
       IN  IF row.id = 0
           THEN Raise(c, DatabaseOperationError(operation))
           ELSE Return(c, Returned(row))
    /\ UNCHANGED <<members, req, loc, wrote, raced, violated, faults>>

CreateRefresh(c) == Refresh(c, "c_refresh", "create_member")

\* session.rollback() in an except clause, then the raise
Rollback(c) ==
    /\ pc[c] = "rollback"
    /\ Goto(c, "done")
    /\ UNCHANGED <<members, req, loc, result, wrote, raced, violated, faults>>

(***************************************************************************)
(* app/crud.py: update_member                                              *)
(***************************************************************************)
\* lines 209-216 up to the phone lookup: validate the phone if one is given
UpdateValidatePhone(c, locals) ==
    IF req[c].phone = None
    THEN SetLocals(c, locals) /\ Goto(c, "u_commit") /\ UNCHANGED result
    ELSE LET v == validate_member_data(DummyName, DummyEmail, req[c].phone)
         IN  IF ~v.ok
             THEN /\ Raise(c, InvalidMemberDataError(v.field, req[c].phone))
                  /\ SetLocals(c, locals)
             ELSE /\ SetLocals(c, [locals EXCEPT !.phone = v.phone])
                  /\ Goto(c, IF Truthy(v.phone) THEN "u_phone" ELSE "u_commit")
                  /\ UNCHANGED result

\* lines 191-202: load the member, validate the name and the email
UpdateStart(c) ==
    /\ pc[c] = "update"
    /\ LET existing_member == get_member_by_id(req[c].id)
           n == IF req[c].name = None THEN Ok(Unset)
                ELSE LET v == validate_member_data(req[c].name, DummyEmail, None)
                     IN  IF v.ok THEN Ok(v.name) ELSE v
           e == IF req[c].email = None THEN Ok(Unset)
                ELSE LET v == validate_member_data(DummyName, req[c].email, None)
                     IN  IF v.ok THEN Ok(v.email) ELSE v
       IN  IF existing_member.id = 0
           THEN /\ Raise(c, MemberNotFoundError("id", IntToStr(req[c].id)))
                /\ UNCHANGED loc
           ELSE IF ~n.ok
           THEN /\ Raise(c, InvalidMemberDataError(n.field, req[c].name))
                /\ UNCHANGED loc
           ELSE IF ~e.ok
           THEN /\ Raise(c, InvalidMemberDataError(e.field, req[c].email))
                /\ UNCHANGED loc
           ELSE LET locals == [name |-> n.value, email |-> e.value,
                               phone |-> Unset, member |-> existing_member]
                IN  IF req[c].email # None
                    THEN SetLocals(c, locals) /\ Goto(c, "u_email")
                         /\ UNCHANGED result
                    ELSE UpdateValidatePhone(c, locals)
    /\ UNCHANGED <<members, req, wrote, raced, violated, faults>>

\* faulty variant: each field is written to the row as soon as it is
\* validated, so the name is in the table when the email pre-check fails
UpdateEmailCheckNameWritten(c) ==
    /\ pc[c] = "u_email"
    /\ LET existing_email_member == get_member_by_email(loc[c].email)
           row == get_member_by_id(loc[c].member.id)
       IN  IF existing_email_member.id # 0 /\ existing_email_member.id # req[c].id
           THEN /\ Raise(c, MemberAlreadyExistsError("email", loc[c].email))
                /\ members' = IF row.id # 0 /\ loc[c].name # Unset
                               THEN (members \ {row}) \cup
                                       {[row EXCEPT !.name = loc[c].name]}
                               ELSE members
                /\ UNCHANGED loc
           ELSE UpdateValidatePhone(c, loc[c]) /\ UNCHANGED members
    /\ UNCHANGED <<req, wrote, raced, violated, faults>>

\* faulty variant: the email pre-check does not leave the member itself out
UpdateEmailCheckNoSelf(c) ==
    /\ pc[c] = "u_email"
    /\ IF get_member_by_email(loc[c].email).id # 0
       THEN /\ Raise(c, MemberAlreadyExistsError("email", loc[c].email))
            /\ UNCHANGED loc
       ELSE UpdateValidatePhone(c, loc[c])
    /\ UNCHANGED <<members, req, wrote, raced, violated, faults>>

\* lines 204-207: the email pre-check, which leaves out the member itself
UpdateEmailCheck(c) ==
    /\ pc[c] = "u_email"
    /\ LET existing_email_member == get_member_by_email(loc[c].email)
       IN  IF existing_email_member.id # 0 /\ existing_email_member.id # req[c].id
           THEN /\ Raise(c, MemberAlreadyExistsError("email", loc[c].email))
                /\ UNCHANGED loc
           ELSE UpdateValidatePhone(c, loc[c])
    /\ UNCHANGED <<members, req, wrote, raced, violated, faults>>

\* lines 211-215: the phone pre-check
UpdatePhoneCheck(c) ==
    /\ pc[c] = "u_phone"
    /\ LET existing_phone_member == get_member_by_phone(loc[c].phone)
       IN  IF existing_phone_member.id # 0 /\ existing_phone_member.id # req[c].id
           THEN Raise(c, MemberAlreadyExistsError("phone", loc[c].phone))
           ELSE Goto(c, "u_commit") /\ UNCHANGED result
    /\ UNCHANGED <<members, req, loc, wrote, raced, violated, faults>>

\* faulty variant: the flush writes every column, supplied or not
ChangedColumnsAll(c) == {"name", "email", "phone"}

\* the columns the flush writes: those set to a value other than the loaded one
ChangedColumns(c) ==
    { col \in {"name", "email", "phone"} :
        loc[c][col] # Unset /\ loc[c][col] # loc[c].member[col] }

\* faulty variant: the commit writes the whole member as the call loaded it,
\* with the supplied fields set, over the row
UpdateCommitWholeRow(c) ==
    /\ pc[c] = "u_commit"
    /\ LET row == get_member_by_id(loc[c].member.id)
           updated == [col \in {"id", "name", "email", "phone"} |->
                          IF col # "id" /\ loc[c][col] # Unset
                          THEN loc[c][col] ELSE loc[c].member[col]]
           violations == UniqueViolations(updated)
       IN  IF row.id = 0
           THEN /\ Raise(c, DatabaseOperationError("update_member"))
                /\ UNCHANGED <<members, wrote, violated>>
           ELSE IF violations # {}
           THEN /\ \E col \in violations :
                     Raise(c, IntegrityErrorHandler("update_member",
                              IntegrityErrorText(col, {"name", "email", "phone"}),
                              IF loc[c].email = Unset THEN << >> ELSE loc[c].email,
                              IF loc[c].phone = Unset THEN << >> ELSE loc[c].phone))
                /\ violated' = [violated EXCEPT ![c] = violations]
                /\ UNCHANGED <<members, wrote>>
           ELSE /\ members' = (members \ {row}) \cup {updated}
                /\ wrote' = [wrote EXCEPT ![c] = TRUE]
                /\ Goto(c, "u_refresh")
                /\ UNCHANGED <<result, violated>>
    /\ UNCHANGED <<req, loc, raced, faults>>

\* faulty variant: the commit writes the member back as a new row, under the
\* next id
UpdateCommitReinsert(c) ==
    /\ pc[c] = "u_commit"
    /\ LET row == get_member_by_id(loc[c].member.id)
       IN  /\ row.id # 0
           /\ members' = (members \ {row}) \cup {[row EXCEPT !.id = NextId]}
    /\ wrote' = [wrote EXCEPT ![c] = TRUE]
    /\ Goto(c, "u_refresh")
    /\ UNCHANGED <<req, loc, result, raced, violated, faults>>

\* lines 219-223: setattr, session.add, session.commit
UpdateCommit(c) ==
    /\ pc[c] = "u_commit"
    /\ LET changed == ChangedColumns(c)
           row == get_member_by_id(loc[c].member.id)
           updated == [col \in {"id", "name", "email", "phone"} |->
                          IF col \in changed THEN loc[c][col] ELSE row[col]]
           violations == UniqueViolations(updated)
       IN  IF changed = {}
           THEN /\ Goto(c, "u_refresh")
                /\ UNCHANGED <<members, result, wrote, violated>>
           ELSE IF row.id = 0
           THEN \* UPDATE matched no row: StaleDataError
                /\ Raise(c, DatabaseOperationError("update_member"))
                /\ UNCHANGED <<members, wrote, violated>>
           ELSE IF violations # {}
           THEN /\ \E col \in violations :
                     Raise(c, IntegrityErrorHandler("update_member",
                              IntegrityErrorText(col, changed),
                              IF loc[c].email = Unset THEN << >> ELSE loc[c].email,
                              IF loc[c].phone = Unset THEN << >> ELSE loc[c].phone))
                /\ violated' = [violated EXCEPT ![c] = violations]
                /\ UNCHANGED <<members, wrote>>
           ELSE /\ members' = (members \ {row}) \cup {updated}
                /\ wrote' = [wrote EXCEPT ![c] = TRUE]
                /\ Goto(c, "u_refresh")
                /\ UNCHANGED <<result, violated>>
    /\ UNCHANGED <<req, loc, raced, faults>>

UpdateRefresh(c) == Refresh(c, "u_refresh", "update_member")

(***************************************************************************)
(* app/crud.py: delete_member                                              *)
(***************************************************************************)
DeleteStart(c) ==
    /\ pc[c] = "delete"
    /\ LET existing_member == get_member_by_id(req[c].id)
       IN  IF existing_member.id = 0
           THEN /\ Raise(c, MemberNotFoundError("id", IntToStr(req[c].id)))
                /\ UNCHANGED loc
           ELSE /\ SetLocals(c, [loc[c] EXCEPT !.member = existing_member])
                /\ Goto(c, "d_commit")
                /\ UNCHANGED result
    /\ UNCHANGED <<members, req, wrote, raced, violated, faults>>

\* faulty variant: a soft delete, the row stays in the table
DeleteCommitSoft(c) ==
    /\ pc[c] = "d_commit"
    /\ Return(c, Returned(NoMember))
    /\ UNCHANGED <<members, req, loc, wrote, raced, violated, faults>>

\* session.delete, session.commit: DELETE ... WHERE id; a row already gone
\* is only warned about
DeleteCommit(c) ==
    /\ pc[c] = "d_commit"
    /\ LET row == get_member_by_id(loc[c].member.id)
       IN  /\ members' = members \ {row}
           /\ wrote' = [wrote EXCEPT ![c] = (row.id # 0)]
    /\ Return(c, Returned(NoMember))
    /\ UNCHANGED <<req, loc, raced, violated, faults>>

(***************************************************************************)
(* app/crud.py: the read functions; app/main.py: list_members              *)
(***************************************************************************)
MaxPageSize == 100

RECURSIVE InRowidOrder(_)
InRowidOrder(rows) ==
    IF rows = {} THEN << >>
    ELSE <<First(rows)>> \o InRowidOrder(rows \ {First(rows)})

Min(a, b) == IF a <= b THEN a ELSE b

\* select(Member).offset(skip).limit(limit) on SQLite: a negative LIMIT is no
\* limit, a negative OFFSET is none
get_all_members(skip, limit) ==
    LET all == InRowidOrder(members)
        rest == SubSeq(all, (IF skip < 0 THEN 0 ELSE skip) + 1, Len(all))
    IN  IF limit < 0 THEN rest ELSE SubSeq(rest, 1, Min(limit, Len(rest)))

\* main.list_members: limit = min(limit, 100)
list_members(skip, limit) == get_all_members(skip, Min(limit, MaxPageSize))

FindByEmail(c) ==
    /\ pc[c] = "find_by_email"
    /\ Return(c, Returned(get_member_by_email(req[c].email)))
    /\ UNCHANGED <<members, req, loc, wrote, raced, violated, faults>>

FindByPhone(c) ==
    /\ pc[c] = "find_by_phone"
    /\ Return(c, Returned(get_member_by_phone(req[c].phone)))
    /\ UNCHANGED <<members, req, loc, wrote, raced, violated, faults>>

FindById(c) ==
    /\ pc[c] = "find_by_id"
    /\ Return(c, Returned(get_member_by_id(req[c].id)))
    /\ UNCHANGED <<members, req, loc, wrote, raced, violated, faults>>

List(c) ==
    /\ pc[c] = "list"
    /\ Return(c, ReturnedRows(list_members(req[c].skip, req[c].limit)))
    /\ UNCHANGED <<members, req, loc, wrote, raced, violated, faults>>

(***************************************************************************)
(* Store failures: a statement, a commit or a rollback that raises         *)
(***************************************************************************)
MaxFaults == 1

ReadSteps == {"find_by_email", "find_by_phone", "find_by_id", "list"}
WriteSteps == {"create", "c_phone", "c_commit", "c_refresh",
               "update", "u_email", "u_phone", "u_commit", "u_refresh",
               "delete", "d_commit"}

FunctionName(op) ==
    CASE op = "create" -> "create_member"
      [] op = "update" -> "update_member"
      [] op = "delete" -> "delete_member"
      [] op = "find_by_email" -> "get_member_by_email"
      [] op = "find_by_phone" -> "get_member_by_phone"
      [] op = "find_by_id" -> "get_member_by_id"
      [] OTHER -> "get_all_members"

\* the store call of a write operation's next step raises: the read helper
\* wraps it, or it is caught as Exception; either way the except Exception
\* clause rolls back and raises DatabaseOperationError
StoreFault(c) ==
    /\ faults < MaxFaults
    /\ pc[c] \in WriteSteps
    /\ pc[c] = "create" =>
          validate_member_data(req[c].name, req[c].email, req[c].phone).ok
    /\ Raise(c, DatabaseOperationError(FunctionName(req[c].op)))
    /\ faults' = faults + 1
    /\ UNCHANGED <<members, req, loc, wrote, raced, violated>>

\* the query of a read function raises: wrapped into DatabaseOperationError
ReadFault(c) ==
    /\ faults < MaxFaults
    /\ pc[c] \in ReadSteps
    /\ Return(c, DatabaseOperationError(FunctionName(req[c].op)))
    /\ faults' = faults + 1
    /\ UNCHANGED <<members, req, loc, wrote, raced, violated>>

\* session.rollback() raises inside the except clause: no clause of the same
\* try catches it. A create that failed validation has not used the session,
\* and its rollback has nothing to do.
RollbackFault(c) ==
    /\ faults < MaxFaults
    /\ pc[c] = "rollback"
    /\ ~(req[c].op = "create" /\ result[c].kind = "InvalidField")
    /\ Return(c, UncaughtException(FunctionName(req[c].op)))
    /\ faults' = faults + 1
    /\ UNCHANGED <<members, req, loc, wrote, raced, violated>>

(***************************************************************************)
(* Specifications                                                          *)
(***************************************************************************)
Step(c) ==
    \/ CreateStart(c)
    \/ CreatePhoneCheck(c)
    \/ CreateCommit(c)
    \/ CreateRefresh(c)
    \/ UpdateStart(c)
    \/ UpdateEmailCheck(c)
    \/ UpdatePhoneCheck(c)
    \/ UpdateCommit(c)
    \/ UpdateRefresh(c)
    \/ DeleteStart(c)
    \/ DeleteCommit(c)
    \/ Rollback(c)

\* concurrent creates, updates and deletes on a store that does not fail
Next ==
    \E c \in Calls :
        \/ BeginCreate(c)
        \/ BeginUpdate(c)
        \/ BeginDelete(c)
        \/ Step(c)

Spec == Init /\ [][Next]_vars

\* lookups by email beside the writes
LookupCreateRequests ==
    { CreateRequest(NameJo, EmailAPadded, None),
      CreateRequest(NameJo, EmailX, None) }
LookupUpdateRequests == { UpdateRequest(1, None, EmailX, None) }
LookupDeleteRequests == { DeleteRequest(1) }
LookupRequests ==
    { Request("find_by_email", 0, None, e, None) :
        e \in {EmailA, EmailAUpper, EmailAPadded} }

LookupBeginCreate(c) == \E request \in LookupCreateRequests : Begin(c, request)
LookupBeginUpdate(c) == \E request \in LookupUpdateRequests : Begin(c, request)
LookupBeginDelete(c) == \E request \in LookupDeleteRequests : Begin(c, request)
LookupBeginFind(c) == \E request \in LookupRequests : Begin(c, request)

NextLookup ==
    \E c \in Calls :
        \/ LookupBeginCreate(c)
        \/ LookupBeginUpdate(c)
        \/ LookupBeginDelete(c)
        \/ LookupBeginFind(c)
        \/ CreateStart(c)
        \/ CreateCommit(c)
        \/ CreateRefresh(c)
        \/ UpdateStart(c)
        \/ UpdateEmailCheck(c)
        \/ UpdateCommit(c)
        \/ UpdateRefresh(c)
        \/ DeleteStart(c)
        \/ DeleteCommit(c)
        \/ Rollback(c)
        \/ FindByEmail(c)

SpecLookup == Init /\ [][NextLookup]_vars

\* every operation, on a store that may fail
FaultCreateRequests ==
    { CreateRequest(NameJo, EmailA, Phone1),
      CreateRequest(NameBad, EmailA, None) }
FaultUpdateRequests == { UpdateRequest(1, None, EmailX, Phone1) }
FaultDeleteRequests == { DeleteRequest(1) }
FaultReadRequests ==
    { Request("find_by_email", 0, None, EmailA, None),
      Request("find_by_phone", 0, None, None, Phone1),
      Request("find_by_id", 1, None, None, None),
      [Request("list", 0, None, None, None) EXCEPT !.limit = MaxPageSize] }

FaultBeginCreate(c) == \E request \in FaultCreateRequests : Begin(c, request)
FaultBeginUpdate(c) == \E request \in FaultUpdateRequests : Begin(c, request)
FaultBeginDelete(c) == \E request \in FaultDeleteRequests : Begin(c, request)
FaultBeginRead(c) == \E request \in FaultReadRequests : Begin(c, request)

NextFault ==
    \E c \in Calls :
        \/ FaultBeginCreate(c)
        \/ FaultBeginUpdate(c)
        \/ FaultBeginDelete(c)
        \/ FaultBeginRead(c)
        \/ Step(c)
        \/ FindByEmail(c)
        \/ FindByPhone(c)
        \/ FindById(c)
        \/ List(c)
        \/ StoreFault(c)
        \/ ReadFault(c)
        \/ RollbackFault(c)

SpecFault == Init /\ [][NextFault]_vars

\* lookups by id beside creates and deletes
FindCreateRequests ==
    { CreateRequest(NameJo, EmailA, None),
      CreateRequest(NameJo, EmailX, Phone1) }
FindDeleteRequests == { DeleteRequest(1), DeleteRequest(2) }
FindRequests ==
    { Request("find_by_id", i, None, None, None) : i \in {1, 2} }

FindBeginCreate(c) == \E request \in FindCreateRequests : Begin(c, request)
FindBeginDelete(c) == \E request \in FindDeleteRequests : Begin(c, request)
FindBeginFind(c) == \E request \in FindRequests : Begin(c, request)

NextFind ==
    \E c \in Calls :
        \/ FindBeginCreate(c)
        \/ FindBeginDelete(c)
        \/ FindBeginFind(c)
        \/ CreateStart(c)
        \/ CreatePhoneCheck(c)
        \/ CreateCommit(c)
        \/ CreateRefresh(c)
        \/ DeleteStart(c)
        \/ DeleteCommit(c)
        \/ Rollback(c)
        \/ FindById(c)

SpecFind == Init /\ [][NextFind]_vars

\* updates of rows that exist and of rows that do not, with fields that are
\* invalid, held by the row itself or held by another row
UpdateCreateRequests ==
    { CreateRequest(NameJo, EmailA, None),
      CreateRequest(NameJo, EmailX, Phone1) }
UpdateUpdateRequests ==
    { UpdateRequest(2, NameBad, EmailA, None),
      UpdateRequest(1, None, EmailAUpper, None),
      UpdateRequest(2, None, EmailAUpper, Phone1),
      UpdateRequest(2, None, None, Phone1),
      UpdateRequest(1, None, None, Phone1),
      UpdateRequest(2, NameAl, EmailAUpper, None),
      UpdateRequest(1, NameAl, EmailAUpper, PhoneBad),
      UpdateRequest(1, NameAl, None, None) }

UpdateBeginCreate(c) == \E request \in UpdateCreateRequests : Begin(c, request)
UpdateBeginUpdate(c) == \E request \in UpdateUpdateRequests : Begin(c, request)

NextUpdate ==
    \E c \in Calls :
        \/ UpdateBeginCreate(c)
        \/ UpdateBeginUpdate(c)
        \/ CreateStart(c)
        \/ CreatePhoneCheck(c)
        \/ CreateCommit(c)
        \/ CreateRefresh(c)
        \/ UpdateStart(c)
        \/ UpdateEmailCheck(c)
        \/ UpdatePhoneCheck(c)
        \/ UpdateCommit(c)
        \/ UpdateRefresh(c)
        \/ Rollback(c)

SpecUpdate == Init /\ [][NextUpdate]_vars

\* creates whose fields are padded, in upper case or absent, beside deletes
CreateCreateRequests ==
    { CreateRequest(NameAl, EmailAPadded, PhonePadded),
      CreateRequest(NameJo, EmailA, None),
      CreateRequest(NameJo, EmailX, PhoneBlank) }
CreateDeleteRequests == { DeleteRequest(1) }

CreateBeginCreate(c) == \E request \in CreateCreateRequests : Begin(c, request)
CreateBeginDelete(c) == \E request \in CreateDeleteRequests : Begin(c, request)

NextCreate ==
    \E c \in Calls :
        \/ CreateBeginCreate(c)
        \/ CreateBeginDelete(c)
        \/ CreateStart(c)
        \/ CreatePhoneCheck(c)
        \/ CreateCommit(c)
        \/ CreateRefresh(c)
        \/ DeleteStart(c)
        \/ DeleteCommit(c)
        \/ Rollback(c)

SpecCreate == Init /\ [][NextCreate]_vars

(***************************************************************************)
(* The validators by themselves, applied to inputs drawn from bounded sets  *)
(***************************************************************************)
MaxCoreLen == 6
MaxPad == 2

MaxDigitRun == 16
MaxSeparators == 6
MaxTail == 1
MaxNameCoreLen == 3
MaxNameOver == 2

\* the character ch, n times
RECURSIVE Repeat(_, _)
Repeat(ch, n) == IF n = 0 THEN << >> ELSE <<ch>> \o Repeat(ch, n - 1)

Spaces(n) == Repeat(" ", n)

\* the characters emails are made of here: a letter in both cases, "@", "."
EmailInputChars == {"a", "A", "@", "."}

\* what a validator returns
Validated(v) == Outcome("ok", "", v, NoMember, << >>)

\* the validators touch no table: one call at a time shows all they do
ValidatorCalls == {1}

\* emails: None, and every string of EmailInputChars up to MaxCoreLen with up
\* to MaxPad spaces on either side
ValidateEmailBegin(c) ==
    /\ c \in ValidatorCalls
    /\ MayBegin(c)
    /\ \/ Begin(c, Request("validate_email", 0, None, None, None))
       \/ \E k \in 0 .. MaxCoreLen : \E core \in [1 .. k -> EmailInputChars] :
          \E l \in 0 .. MaxPad, r \in 0 .. MaxPad :
             Begin(c, Request("validate_email", 0, None,
                              Spaces(l) \o core \o Spaces(r), None))

ValidateEmail(c) ==
    /\ pc[c] = "validate_email"
    /\ LET v == validate_email(req[c].email)
       IN  Return(c, IF v.ok THEN Validated(v.value)
                     ELSE InvalidMemberDataError(v.field, req[c].email))
    /\ UNCHANGED <<members, req, loc, wrote, raced, violated, faults>>

\* the characters names are made of here: a letter, a digit, the space, the
\* hyphen, a tab, a newline and a character no name may have
NameInputChars == {"a", "1", " ", "-", "\t", "\n", "!"}

\* names: None, every string of NameInputChars up to MaxNameCoreLen with
\* spaces on either side, and names about MaxNameLen letters long
ValidateNameBegin(c) ==
    /\ c \in ValidatorCalls
    /\ MayBegin(c)
    /\ \/ Begin(c, Request("validate_name", 0, None, None, None))
       \/ \E k \in 0 .. MaxNameCoreLen : \E core \in [1 .. k -> NameInputChars] :
          \E l \in 0 .. MaxPad, r \in 0 .. MaxPad :
             Begin(c, Request("validate_name", 0,
                              Spaces(l) \o core \o Spaces(r), None, None))
       \/ \E over \in 0 .. MaxNameOver, l \in 0 .. MaxPad :
             Begin(c, Request("validate_name", 0,
                              Spaces(l) \o Repeat("a", MaxNameLen - 1 + over),
                              None, None))

ValidateName(c) ==
    /\ pc[c] = "validate_name"
    /\ LET v == validate_name(req[c].name)
       IN  Return(c, IF v.ok THEN Validated(v.value)
                     ELSE InvalidMemberDataError(v.field, req[c].name))
    /\ UNCHANGED <<members, req, loc, wrote, raced, violated, faults>>

\* what may stand between the digits of a phone: nothing, a formatting
\* character, whitespace, a letter
PhoneMiddles ==
    { << >>, <<"(">>, <<")">>, <<"+">>, <<".">>, <<" ">>, <<"\t">>, <<"\n">>,
      <<"a">> }

\* phones: None, and a run of digits, hyphens, one of PhoneMiddles and more
\* digits, with spaces on either side
ValidatePhoneBegin(c) ==
    /\ c \in ValidatorCalls
    /\ MayBegin(c)
    /\ \/ Begin(c, Request("validate_phone", 0, None, None, None))
       \/ \E n \in 0 .. MaxDigitRun, j \in 0 .. MaxSeparators,
             k \in 0 .. MaxTail, l \in 0 .. MaxPad, r \in 0 .. MaxPad :
          \E middle \in PhoneMiddles :
             Begin(c, Request("validate_phone", 0, None, None,
                              Spaces(l) \o Repeat("1", n) \o Repeat("-", j)
                              \o middle \o Repeat("2", k) \o Spaces(r)))

ValidatePhone(c) ==
    /\ pc[c] = "validate_phone"
    /\ LET v == validate_phone(req[c].phone)
       IN  Return(c, IF v.ok THEN Validated(v.value)
                     ELSE InvalidMemberDataError(v.field, req[c].phone))
    /\ UNCHANGED <<members, req, loc, wrote, raced, violated, faults>>

\* names, emails and phones of which some are invalid
ValidateNames == {NameJo, NameAl, NameBad, None}
ValidateEmails == {EmailA, EmailAPadded, EmailBad, None}
ValidatePhones == {None, Phone1, PhonePadded, PhoneBlank, PhoneBad}

ValidateAllBegin(c) ==
    /\ c \in ValidatorCalls
    /\ MayBegin(c)
    /\ \E n \in ValidateNames, e \in ValidateEmails, p \in ValidatePhones :
          Begin(c, Request("validate_all", 0, n, e, p))

ValidateAll(c) ==
    /\ pc[c] = "validate_all"
    /\ LET v == validate_member_data(req[c].name, req[c].email, req[c].phone)
       IN  Return(c, IF v.ok
                     THEN Returned([id |-> 0, name |-> v.name,
                                    email |-> v.email, phone |-> v.phone])
                     ELSE InvalidMemberDataError(v.field, req[c][v.field]))
    /\ UNCHANGED <<members, req, loc, wrote, raced, violated, faults>>

\* a create with the same arguments
ValidateCreateBegin(c) ==
    /\ c \in ValidatorCalls
    /\ MayBegin(c)
    /\ \E n \in ValidateNames, e \in ValidateEmails, p \in ValidatePhones :
          Begin(c, CreateRequest(n, e, p))

NextValidate ==
    \E c \in Calls :
        \/ ValidateNameBegin(c)
        \/ ValidateEmailBegin(c)
        \/ ValidatePhoneBegin(c)
        \/ ValidateAllBegin(c)
        \/ ValidateCreateBegin(c)
        \/ ValidateName(c)
        \/ ValidateEmail(c)
        \/ ValidatePhone(c)
        \/ ValidateAll(c)
        \/ CreateStart(c)
        \/ CreatePhoneCheck(c)
        \/ CreateCommit(c)
        \/ CreateRefresh(c)
        \/ Rollback(c)

SpecValidate == Init /\ [][NextValidate]_vars

(***************************************************************************)
(* The list entry point on tables of up to MaxRows members                 *)
(***************************************************************************)
MaxRows == 101

\* the member the i-th create of a run of creates stores
NthMember(i) ==
    [id |-> i, name |-> NameJo,
     email |-> IntToStr(i) \o <<"@", "b", ".", "c", "c">>, phone |-> None]

\* the table after n creates
TableOf(n) == { NthMember(i) : i \in 1 .. n }

InitList ==
    /\ members \in { TableOf(n) : n \in 0 .. MaxRows }
    /\ pc = [c \in Calls |-> "idle"]
    /\ req = [c \in Calls |-> NoRequest]
    /\ loc = [c \in Calls |-> NoLocals]
    /\ result = [c \in Calls |-> NoResult]
    /\ wrote = [c \in Calls |-> FALSE]
    /\ raced = {}
    /\ violated = [c \in Calls |-> {}]
    /\ faults = 0

\* a list call is one SELECT: one call at a time shows all it does
ListCalls == {1}

\* the skip and limit parameters are any integers
ListBegin(c) ==
    /\ c \in ListCalls
    /\ MayBegin(c)
    /\ \E skip \in {-1, 0, 1},
          limit \in {-1, 0, 1, MaxPageSize, MaxPageSize + 1} :
          Begin(c, [Request("list", 0, None, None, None)
                       EXCEPT !.skip = skip, !.limit = limit])

NextList ==
    \E c \in Calls :
        \/ ListBegin(c)
        \/ List(c)

SpecList == InitList /\ [][NextList]_vars

(***************************************************************************)
(* Concurrent updates and creates on a table of two members                *)
(***************************************************************************)
InitRace ==
    /\ members = TableOf(2)
    /\ pc = [c \in Calls |-> "idle"]
    /\ req = [c \in Calls |-> NoRequest]
    /\ loc = [c \in Calls |-> NoLocals]
    /\ result = [c \in Calls |-> NoResult]
    /\ wrote = [c \in Calls |-> FALSE]
    /\ raced = {}
    /\ violated = [c \in Calls |-> {}]
    /\ faults = 0

\* updates of the two members that supply the same new email or the same new
\* phone, updates of one member that supply different fields, and creates of
\* the emails the updates supply
RaceRequests ==
    { UpdateRequest(1, None, EmailX, Phone1),
      UpdateRequest(1, None, EmailX, None),
      UpdateRequest(2, None, EmailAUpper, None),
      UpdateRequest(2, None, EmailX, None),
      UpdateRequest(2, None, None, Phone1),
      UpdateRequest(1, None, None, PhonePadded),
      UpdateRequest(1, NameAl, None, None),
      CreateRequest(NameJo, EmailX, None),
      CreateRequest(NameJo, EmailAPadded, None) }

RaceBegin(c) == \E request \in RaceRequests : Begin(c, request)

NextRace ==
    \E c \in Calls :
        \/ RaceBegin(c)
        \/ CreateStart(c)
        \/ CreateCommit(c)
        \/ CreateRefresh(c)
        \/ UpdateStart(c)
        \/ UpdateEmailCheck(c)
        \/ UpdatePhoneCheck(c)
        \/ UpdateCommit(c)
        \/ UpdateRefresh(c)
        \/ Rollback(c)

SpecRace == InitRace /\ [][NextRace]_vars

(***************************************************************************)
(* Properties                                                              *)
(***************************************************************************)
EmailHeld(email) == \E r \in members : r.email = email
PhoneHeld(phone) == \E r \in members : r.phone = phone

\* an email as stored: trimmed, lower case
NormalForm(email) == Lower(Strip(email))

\* a phone argument that stands for no phone
PhoneAbsent(phone) == phone = None \/ Strip(phone) = << >>

\* the rollback that follows an error keeps the error and the table
RollbackKeeps(c) ==
    (pc[c] = "rollback" /\ pc'[c] = "done") =>
        (result'[c] = result[c] /\ members' = members)

\* C1: in every reachable state, whatever the interleaving of creates,
\* updates and deletes, no two rows have the same email.
C1_EmailUnique == \A r, q \in members : r.email = q.email => r = q

\* a create lost the race for an email: the index on email rejected its commit
C1_Witness ==
    \E c \in Calls :
        /\ pc[c] = "done"
        /\ "email" \in violated[c]
        /\ ~wrote[c]
        /\ EmailHeld(NormalForm(req[c].email))

\* C2: in every reachable state, no two rows have the same phone, rows
\* without a phone aside.
C2_PhoneUnique ==
    \A r, q \in members : (r.phone # None /\ r.phone = q.phone) => r = q

\* a write lost the race for a phone: the index on phone rejected its commit
C2_Witness ==
    \E c \in Calls :
        /\ pc[c] = "done"
        /\ "phone" \in violated[c]
        /\ ~wrote[c]
        /\ \E r \in members : r.phone # None /\ r.phone = Strip(req[c].phone)

\* C3, as claimed: of two creates of one email that both passed the email
\* pre-check before either committed, at most one commits a row, and the one
\* that does not ends with AlreadyExists.
C3_AtMostOneCommits ==
    \A c, d \in Calls :
        (c # d /\ {c, d} \in raced /\ pc[c] = "done" /\ pc[d] = "done") =>
            /\ ~(wrote[c] /\ wrote[d])
            /\ ~wrote[c] => result[c].kind = "AlreadyExists"

\* C3, amended: a create that raced for its email and reaches its commit
\* while a row holds that email commits nothing and ends with AlreadyExists;
\* the two can both commit only after the row committed first gave the email
\* up, and their rows are never in the table together.
C3_LoserAlreadyExists ==
    /\ []C1_EmailUnique
    /\ [][\A c \in Calls :
            /\ ( /\ \E d \in Calls : {c, d} \in raced
                 /\ pc[c] = "c_commit" /\ pc'[c] # "c_commit"
                 /\ EmailHeld(loc[c].email) )
               => ( /\ members' = members
                    /\ ~wrote'[c]
                    /\ pc'[c] = "rollback"
                    /\ result'[c].kind = "AlreadyExists" )
            /\ RollbackKeeps(c)]_vars

\* two creates raced for an email; one committed, the other was rejected at
\* its commit and ended with AlreadyExists
C3_Witness ==
    \E c, d \in Calls :
        /\ {c, d} \in raced
        /\ wrote[d] /\ ~wrote[c]
        /\ pc[c] = "done" /\ pc[d] = "done"
        /\ violated[c] # {}
        /\ result[c].kind = "AlreadyExists"

\* C4: a create whose commit the store rejects for a uniqueness violation
\* fails with AlreadyExists for a field whose unique constraint was violated.
C4_FieldOfViolation ==
    \A c \in Calls :
        (req[c].op = "create" /\ violated[c] # {}) =>
            /\ result[c].kind = "AlreadyExists"
            /\ result[c].field \in violated[c]

\* C5: a create, update or delete that ends in an error has committed no
\* change to the table.
C5_ErrorLeavesStore ==
    \A c \in Calls :
        (pc[c] = "done" /\ result[c].kind \in ErrorKinds) => ~wrote[c]

\* C6: every call returns or fails with one of the four kinds of error.
C6_FourKinds ==
    \A c \in Calls :
        pc[c] = "done" => result[c].kind \in {"ok"} \cup ErrorKinds

\* C7, as claimed: a create beginning while a row holds its email, up to
\* letter case and surrounding whitespace, fails with AlreadyExists for the
\* email, carrying the normalized email, and adds no row.
C7_SecondCreateFails ==
    [][\A c \in Calls :
         ( /\ pc[c] = "create" /\ pc'[c] # "create"
           /\ EmailHeld(NormalForm(req[c].email)) )
         => ( /\ pc'[c] = "rollback"
              /\ result'[c] =
                    MemberAlreadyExistsError("email", NormalForm(req[c].email))
              /\ members' = members )]_vars

\* C7, amended: the same of a create whose name and phone are valid.
C7_SecondValidCreateFails ==
    [][\A c \in Calls :
         /\ ( /\ pc[c] = "create" /\ pc'[c] # "create"
              /\ validate_name(req[c].name).ok
              /\ validate_phone(req[c].phone).ok
              /\ EmailHeld(NormalForm(req[c].email)) )
            => ( /\ pc'[c] = "rollback"
                 /\ result'[c] =
                       MemberAlreadyExistsError("email", NormalForm(req[c].email))
                 /\ ~wrote'[c]
                 /\ members' = members )
         /\ RollbackKeeps(c)]_vars

\* a create spelt its email otherwise than the row that holds it and was
\* refused by the pre-check
C7_Witness ==
    \E c \in Calls :
        /\ req[c].op = "create" /\ pc[c] = "done"
        /\ violated[c] = {}
        /\ req[c].email # NormalForm(req[c].email)
        /\ result[c] = MemberAlreadyExistsError("email", NormalForm(req[c].email))
        /\ EmailHeld(NormalForm(req[c].email))

\* C8: find_by_email with the email argument a successful create was given,
\* in any letter case, returns the member that create returned, as long as
\* the member is in the table with that email.
C8_FindAfterCreate ==
    [][\A f, c \in Calls :
         ( /\ pc[f] = "find_by_email" /\ pc'[f] = "done"
           /\ req[c].op = "create" /\ pc[c] = "done" /\ result[c].kind = "ok"
           /\ Lower(req[f].email) = Lower(req[c].email)
           /\ \E r \in members : /\ r.id = result[c].member.id
                                 /\ r.email = result[c].member.email )
         => result'[f].member.id = result[c].member.id]_vars

\* C9: a create with valid fields and a phone, whose email no row held at
\* the email pre-check and whose phone a row holds at the phone pre-check,
\* fails with AlreadyExists for the phone, carrying the phone, and adds no
\* row.
C9_PhoneTaken ==
    [][\A c \in Calls :
         /\ ( /\ req[c].op = "create"
              /\ pc[c] = "c_phone" /\ pc'[c] # "c_phone"
              /\ validate_member_data(req[c].name, req[c].email, req[c].phone).ok
              /\ ~PhoneAbsent(req[c].phone)
              /\ PhoneHeld(Strip(req[c].phone)) )
            => ( /\ pc'[c] = "rollback"
                 /\ result'[c] =
                       MemberAlreadyExistsError("phone", Strip(req[c].phone))
                 /\ ~wrote'[c]
                 /\ members' = members )
         /\ RollbackKeeps(c)]_vars

\* a create with a free email and a taken phone was refused by the phone
\* pre-check
C9_Witness ==
    \E c \in Calls :
        /\ req[c].op = "create" /\ pc[c] = "done"
        /\ violated[c] = {}
        /\ result[c] = MemberAlreadyExistsError("phone", Strip(req[c].phone))
        /\ PhoneHeld(Strip(req[c].phone))
        /\ ~EmailHeld(NormalForm(req[c].email))

\* C10: a create or update whose phone is None, empty or blank never fails
\* with AlreadyExists for the phone, however many rows have no phone.
C10_AbsentPhoneNeverTaken ==
    \A c \in Calls :
        (req[c].op \in {"create", "update"} /\ PhoneAbsent(req[c].phone)) =>
            ~(result[c].kind = "AlreadyExists" /\ result[c].field = "phone")

\* a create without a phone and an update to a blank phone both succeeded,
\* and two rows without a phone are in the table
C10_Witness ==
    /\ \E r, q \in members : r # q /\ r.phone = None /\ q.phone = None
    /\ \E c, d \in Calls :
          /\ req[c].op = "create" /\ req[c].phone = None
          /\ pc[c] = "done" /\ result[c].kind = "ok"
          /\ req[d].op = "update" /\ req[d].phone = PhoneBlank
          /\ pc[d] = "done" /\ result[d].kind = "ok" /\ wrote[d]

\* the fields an update request supplies
Supplied(c) == { col \in {"name", "email", "phone"} : req[c][col] # None }

\* call c takes the step
Acts(c) == pc'[c] # pc[c]

\* C11: an update changes the table at its commit only, and there only the
\* supplied fields of the row of the requested id: that row keeps its id and
\* every field not supplied, every other row stays as it is, and no row is
\* added or removed.
C11_UpdateFrame ==
    [][\A c \in Calls :
         (req[c].op = "update" /\ Acts(c) /\ members' # members) =>
            /\ pc[c] = "u_commit" /\ pc'[c] = "u_refresh" /\ wrote'[c]
            /\ { r.id : r \in members' } = { r.id : r \in members }
            /\ \A r \in members : \A q \in members' :
                  r.id = q.id =>
                     IF r.id = req[c].id
                     THEN \A col \in {"name", "email", "phone"} \ Supplied(c) :
                             q[col] = r[col]
                     ELSE q = r]_vars

\* an update of the name alone succeeded beside another row: the row has the
\* new name and the email and phone its create stored
C11_Witness ==
    \E c, d \in Calls :
        /\ req[c].op = "update" /\ pc[c] = "done"
        /\ result[c].kind = "ok" /\ wrote[c]
        /\ Supplied(c) = {"name"}
        /\ req[d].op = "create" /\ pc[d] = "done" /\ result[d].kind = "ok"
        /\ result[d].member.id = req[c].id
        /\ \E r \in members :
              /\ r.id = req[c].id
              /\ r.name = Strip(req[c].name)
              /\ r.name # result[d].member.name
              /\ r.email = result[d].member.email
              /\ r.phone = result[d].member.phone
        /\ Cardinality(members) = 2

IdHeld(id) == \E r \in members : r.id = id

\* C12: the commit of a delete leaves no row of the id; while no row has an
\* id, whether one was deleted or none ever had it, find_by_id of it returns
\* absent and delete of it fails with NotFound for "id", carrying the id, and
\* changes nothing.
C12_DeletedIsGone ==
    [][\A c \in Calls :
         /\ (req[c].op = "delete" /\ pc[c] = "d_commit" /\ Acts(c)) =>
               ( /\ pc'[c] = "done" /\ result'[c].kind = "ok"
                 /\ ~\E r \in members' : r.id = req[c].id )
         /\ (pc[c] = "find_by_id" /\ Acts(c) /\ ~IdHeld(req[c].id)) =>
               result'[c] = Returned(NoMember)
         /\ (req[c].op = "delete" /\ pc[c] = "delete" /\ Acts(c)
             /\ ~IdHeld(req[c].id)) =>
               ( /\ pc'[c] = "rollback"
                 /\ result'[c] = MemberNotFoundError("id", IntToStr(req[c].id))
                 /\ ~wrote'[c]
                 /\ members' = members )
         /\ req[c].op = "delete" => RollbackKeeps(c)]_vars

\* a delete removed a row, and a second delete of the same id, made after it,
\* ended with NotFound
C12_Witness ==
    \E c, d \in Calls :
        /\ c < d
        /\ req[c].op = "delete" /\ pc[c] = "done"
        /\ result[c].kind = "ok" /\ wrote[c]
        /\ req[d].op = "delete" /\ req[d].id = req[c].id /\ pc[d] = "done"
        /\ result[d] = MemberNotFoundError("id", IntToStr(req[c].id))
        /\ ~IdHeld(req[c].id)

\* C13: an update of an id no row has fails with NotFound for "id" at its
\* first step, whatever it supplies, valid or not, held by a row or not, and
\* changes no row.
C13_UpdateNotFoundFirst ==
    [][\A c \in Calls :
         /\ (req[c].op = "update" /\ pc[c] = "update" /\ Acts(c)
             /\ ~IdHeld(req[c].id)) =>
               ( /\ pc'[c] = "rollback"
                 /\ result'[c].kind = "NotFound"
                 /\ result'[c].field = "id"
                 /\ result'[c].value = IntToStr(req[c].id)
                 /\ ~wrote'[c]
                 /\ members' = members )
         /\ req[c].op = "update" => RollbackKeeps(c)]_vars

\* an update of an id no row has, with an invalid name and an email another
\* row holds, ended with NotFound
C13_Witness ==
    \E c \in Calls :
        /\ req[c].op = "update" /\ pc[c] = "done"
        /\ ~validate_name(req[c].name).ok
        /\ EmailHeld(NormalForm(req[c].email))
        /\ ~IdHeld(req[c].id)
        /\ result[c].kind = "NotFound"
        /\ result[c].value = IntToStr(req[c].id)
        /\ ~wrote[c]

\* the rows other than the one of id that hold the value in the column
HeldByOther(col, value, id) ==
    \E r \in members : r.id # id /\ r[col] = value

\* C14, as claimed: an update of a row that exists, supplying an email or a
\* phone a row of another id holds, does not fail with anything other than
\* AlreadyExists.
C14_OtherHolderAlwaysExists ==
    [][\A c \in Calls :
         ( /\ req[c].op = "update" /\ pc[c] = "update" /\ Acts(c)
           /\ IdHeld(req[c].id)
           /\ \/ /\ req[c].email # None
                 /\ HeldByOther("email", NormalForm(req[c].email), req[c].id)
              \/ /\ req[c].phone # None
                 /\ HeldByOther("phone", Strip(req[c].phone), req[c].id) )
         => (pc'[c] = "rollback" => result'[c].kind = "AlreadyExists")]_vars

\* C14, amended: at the pre-check of a supplied email or phone, a row of
\* another id holding the value makes the update fail with AlreadyExists for
\* that field, carrying the value, with no row changed; the row of the id
\* itself holding it (the email in any letter case) is no conflict there, and
\* at the commit an update whose email and phone the row itself holds is
\* written and rejected for no column.
C14_SelfMatchNoConflict ==
    [][\A c \in Calls :
         /\ (pc[c] = "u_email" /\ Acts(c)) =>
               IF HeldByOther("email", NormalForm(req[c].email), req[c].id)
               THEN /\ pc'[c] = "rollback"
                    /\ result'[c].kind = "AlreadyExists"
                    /\ result'[c].field = "email"
                    /\ result'[c].value = NormalForm(req[c].email)
                    /\ members' = members /\ ~wrote'[c]
               ELSE result'[c].kind # "AlreadyExists"
         /\ (pc[c] = "u_phone" /\ Acts(c)) =>
               IF HeldByOther("phone", Strip(req[c].phone), req[c].id)
               THEN /\ pc'[c] = "rollback"
                    /\ result'[c].kind = "AlreadyExists"
                    /\ result'[c].field = "phone"
                    /\ result'[c].value = Strip(req[c].phone)
                    /\ members' = members /\ ~wrote'[c]
               ELSE pc'[c] = "u_commit"
         /\ ( /\ pc[c] = "u_commit" /\ Acts(c)
              /\ \E r \in members :
                    /\ r.id = req[c].id
                    /\ req[c].email # None => r.email = NormalForm(req[c].email)
                    /\ ~PhoneAbsent(req[c].phone) => r.phone = Strip(req[c].phone) )
            => (pc'[c] = "u_refresh" /\ violated'[c] = {})
         /\ req[c].op = "update" => RollbackKeeps(c)]_vars

\* an update supplied, in another letter case, the email its own row holds,
\* and succeeded
C14_Witness ==
    \E c \in Calls :
        /\ req[c].op = "update" /\ pc[c] = "done" /\ result[c].kind = "ok"
        /\ req[c].email # None
        /\ req[c].email # NormalForm(req[c].email)
        /\ result[c].member.id = req[c].id
        /\ \E r \in members :
              r.id = req[c].id /\ r.email = NormalForm(req[c].email)

Ids(rows) == { r.id : r \in rows }

\* C15: a row's id is the one create gave it for as long as the row is in the
\* table: a step of an update leaves the ids of all rows as they are, a row
\* leaves the table only by a delete of its id, an id enters the table only
\* by a create, which returns the member under that id, and no row is without
\* an id.
C15_IdImmutable ==
    /\ [](\A r \in members : r.id > 0)
    /\ [][\A c \in Calls :
            /\ (req[c].op = "update" /\ Acts(c)) =>
                  /\ Ids(members') = Ids(members)
                  /\ Cardinality(members') = Cardinality(members)
                  /\ \A r \in members : \A q \in members' :
                        (q.id = r.id /\ q # r) => r.id = req[c].id
            /\ (req[c].op = "delete" /\ Acts(c)) =>
                  Ids(members) \ Ids(members') \subseteq {req[c].id}
            /\ (req[c].op = "create" /\ Acts(c)) =>
                  /\ members \subseteq members'
                  /\ Cardinality(members' \ members) <= 1
                  /\ \A q \in members' \ members :
                        q.id \notin Ids(members) /\ q = loc'[c].member
                  /\ (pc'[c] = "done" /\ result'[c].kind = "ok") =>
                        result'[c].member.id = loc[c].member.id]_vars

\* a member was created and then changed by an update, and is in the table
\* under the id create returned
C15_Witness ==
    \E c, d \in Calls :
        /\ req[c].op = "create" /\ pc[c] = "done" /\ result[c].kind = "ok"
        /\ req[d].op = "update" /\ pc[d] = "done" /\ result[d].kind = "ok"
        /\ wrote[d]
        /\ req[d].id = result[c].member.id
        /\ result[d].member.id = result[c].member.id
        /\ result[d].member # result[c].member
        /\ result[d].member \in members

\* the row a create is to store for its arguments
Normalized(request, q) ==
    /\ q.name = Strip(request.name)
    /\ q.email = Lower(Strip(request.email))
    /\ q.phone = IF PhoneAbsent(request.phone) THEN None ELSE Strip(request.phone)

\* C16: a create changes the table at its commit only, by one new row that
\* has the trimmed name, the trimmed lower-case email, the trimmed phone with
\* its formatting or no phone, and an id that is set and that no other row
\* has; the create that succeeds has stored such a row and returns the row of
\* that id, which is the row it stored unless a later write changed it.
C16_CreateStoresNormalized ==
    [][\A c \in Calls :
         (req[c].op = "create" /\ Acts(c)) =>
            /\ members' # members =>
                  /\ pc[c] = "c_commit" /\ pc'[c] = "c_refresh"
                  /\ ~wrote[c] /\ wrote'[c]
                  /\ \E q \in members' :
                        /\ q \notin members
                        /\ members' = members \cup {q}
                        /\ Normalized(req[c], q)
                        /\ q.id > 0
                        /\ q.id \notin Ids(members)
                        /\ loc'[c].member = q
            /\ (pc'[c] = "done" /\ result'[c].kind = "ok") =>
                  /\ wrote[c]
                  /\ Normalized(req[c], loc[c].member)
                  /\ result'[c].member \in members
                  /\ result'[c].member.id = loc[c].member.id
                  /\ loc[c].member \in members =>
                        result'[c].member = loc[c].member]_vars

\* a create with a padded name, a padded upper-case email and a padded phone
\* with a hyphen succeeded and returned the row it stored
C16_Witness ==
    \E c \in Calls :
        /\ req[c].op = "create" /\ pc[c] = "done" /\ result[c].kind = "ok"
        /\ req[c].name # Strip(req[c].name)
        /\ req[c].email # Strip(req[c].email)
        /\ Strip(req[c].email) # Lower(Strip(req[c].email))
        /\ req[c].phone # Strip(req[c].phone)
        /\ \E i \in DOMAIN req[c].phone : req[c].phone[i] = "-"
        /\ Normalized(req[c], result[c].member)
        /\ result[c].member \in members
        /\ Cardinality(members) = 2

\* C17: the commit of a delete takes the row out of the table and leaves
\* every other row, so that no row holds the email or the phone it held; an
\* update that changes a row's email or phone leaves the old value held by no
\* row; and a create with valid fields passes each pre-check and its commit
\* whenever no row in the table holds its email and none holds its phone,
\* whoever held them before.
C17_HardDelete ==
    [][\A c \in Calls :
         /\ (req[c].op = "delete" /\ pc[c] = "d_commit" /\ Acts(c)) =>
               /\ members' = { r \in members : r.id # req[c].id }
               /\ \A r \in members :
                     r.id = req[c].id =>
                        /\ \A q \in members' : q.email # r.email
                        /\ r.phone # None => \A q \in members' : q.phone # r.phone
         /\ (req[c].op = "update" /\ pc[c] = "u_commit" /\ Acts(c)) =>
               \A r \in members : \A q \in members' :
                  (q.id = r.id /\ q # r) =>
                     /\ q.email # r.email => \A x \in members' : x.email # r.email
                     /\ (q.phone # r.phone /\ r.phone # None) =>
                           \A x \in members' : x.phone # r.phone
         /\ ( /\ req[c].op = "create" /\ pc[c] = "create" /\ Acts(c)
              /\ validate_member_data(req[c].name, req[c].email, req[c].phone).ok
              /\ ~EmailHeld(NormalForm(req[c].email)) ) =>
               pc'[c] \in {"c_phone", "c_commit"}
         /\ ( /\ req[c].op = "create" /\ pc[c] = "c_phone" /\ Acts(c)
              /\ ~PhoneHeld(loc[c].phone) ) =>
               pc'[c] = "c_commit"
         /\ ( /\ req[c].op = "create" /\ pc[c] = "c_commit" /\ Acts(c)
              /\ ~EmailHeld(loc[c].email)
              /\ ~(loc[c].phone # None /\ PhoneHeld(loc[c].phone)) ) =>
               /\ pc'[c] = "c_refresh"
               /\ wrote'[c]
               /\ \E q \in members' \ members :
                     q.email = loc[c].email /\ q.phone = loc[c].phone]_vars

\* a member with an email and a phone was created and deleted, and a create
\* made after the delete succeeded with the same email and the same phone
C17_Witness ==
    \E c, d, e \in Calls :
        /\ c < d /\ d < e
        /\ req[c].op = "create" /\ pc[c] = "done" /\ result[c].kind = "ok"
        /\ req[d].op = "delete" /\ pc[d] = "done" /\ result[d].kind = "ok"
        /\ wrote[d]
        /\ req[d].id = result[c].member.id
        /\ req[e].op = "create" /\ pc[e] = "done" /\ result[e].kind = "ok"
        /\ result[c].member.phone # None
        /\ result[e].member.email = result[c].member.email
        /\ result[e].member.phone = result[c].member.phone
        /\ result[e].member \in members

\* C18: validate_email applied to an email validate_email returned succeeds
\* and returns that email.
C18_ValidateEmailIdempotent ==
    \A c \in Calls :
        ( /\ req[c].op = "validate_email" /\ pc[c] = "done"
          /\ result[c].kind = "ok" )
        => validate_email(result[c].value) = Ok(result[c].value)

\* validate_email accepted an email with spaces around it and upper-case
\* letters in it, and returned another string
C18_Witness ==
    \E c \in Calls :
        /\ req[c].op = "validate_email" /\ pc[c] = "done"
        /\ result[c].kind = "ok"
        /\ Head(req[c].email) = " "
        /\ req[c].email[Len(req[c].email)] = " "
        /\ \E i \in DOMAIN req[c].email : req[c].email[i] \in UpperLetters
        /\ result[c].value # req[c].email

\* the first of name, email and phone that its validator rejects, "" if none
FirstInvalid(request) ==
    IF ~validate_name(request.name).ok THEN "name"
    ELSE IF ~validate_email(request.email).ok THEN "email"
    ELSE IF ~validate_phone(request.phone).ok THEN "phone"
    ELSE ""

\* C19: validate_all, and create with it, fails with InvalidField exactly
\* when one of name, email and phone is invalid, and the error names the
\* first invalid one in that order.
C19_FirstInvalidField ==
    \A c \in Calls :
        (req[c].op \in {"validate_all", "create"} /\ pc[c] = "done") =>
            IF FirstInvalid(req[c]) = ""
            THEN result[c].kind # "InvalidField"
            ELSE /\ result[c].kind = "InvalidField"
                 /\ result[c].field = FirstInvalid(req[c])
                 /\ ~wrote[c]

\* a create whose name, email and phone are all invalid failed with
\* InvalidField for the name
C19_Witness ==
    \E c \in Calls :
        /\ req[c].op = "create" /\ pc[c] = "done"
        /\ ~validate_name(req[c].name).ok
        /\ ~validate_email(req[c].email).ok
        /\ ~validate_phone(req[c].phone).ok
        /\ result[c].kind = "InvalidField"
        /\ result[c].field = "name"
        /\ members = {}

\* C20: validate_phone returns absent for None, empty and blank input; any
\* other input it accepts exactly when the trimmed value has at most 20
\* characters and, with space, hyphen, parentheses, plus and dot removed, is
\* made of 8 to 15 digits, and then it returns the trimmed value.
C20_ValidatePhone ==
    \A c \in Calls :
        (req[c].op = "validate_phone" /\ pc[c] = "done") =>
            LET trimmed == Strip(req[c].phone)
                digits == RemoveChars(trimmed, {" ", "-", "(", ")", "+", "."})
            IN  IF PhoneAbsent(req[c].phone)
                THEN result[c] = Validated(None)
                ELSE IF /\ Len(trimmed) <= 20
                        /\ AllIn(digits, Digits)
                        /\ Len(digits) >= 8 /\ Len(digits) <= 15
                THEN result[c] = Validated(trimmed)
                ELSE result[c].kind = "InvalidField" /\ result[c].field = "phone"

\* C21: validate_name fails with InvalidField for the name when the trimmed
\* input is empty, shorter than 2, longer than 100 or has a character that
\* is not a letter, a digit, a space, a hyphen, an apostrophe or a dot, a tab
\* or newline inside it included; otherwise it returns the trimmed input.
C21_ValidateName ==
    \A c \in Calls :
        (req[c].op = "validate_name" /\ pc[c] = "done") =>
            LET trimmed == Strip(req[c].name)
            IN  IF \/ req[c].name = None
                   \/ Len(trimmed) < 2
                   \/ Len(trimmed) > 100
                   \/ ~AllIn(trimmed, Letters \cup Digits \cup {" ", "-", "'", "."})
                THEN result[c].kind = "InvalidField" /\ result[c].field = "name"
                ELSE result[c] = Validated(trimmed)

\* C22: a list call returns at most 100 members whatever skip and limit it
\* is given, and no more than the limit when the limit is from 0 to 100.
C22_ListCapped ==
    \A c \in Calls :
        (req[c].op = "list" /\ pc[c] = "done" /\ result[c].kind = "ok") =>
            /\ Len(result[c].rows) <= 100
            /\ (req[c].limit >= 0 /\ req[c].limit <= 100) =>
                  Len(result[c].rows) <= req[c].limit

\* C23: an update writes nothing before its commit and its commit writes all
\* it changes at once: a step that makes an update fail validation or a
\* pre-check leaves every row as it was, a later supplied field failing after
\* earlier ones passed included, and an update that ended with InvalidField
\* or AlreadyExists has written nothing.
C23_UpdateAllOrNothing ==
    /\ [](\A c \in Calls :
            ( /\ req[c].op = "update"
              /\ pc[c] \in {"rollback", "done"}
              /\ result[c].kind \in {"InvalidField", "AlreadyExists"} )
            => ~wrote[c])
    /\ [][\A c \in Calls :
            /\ ( /\ req[c].op = "update" /\ Acts(c)
                 /\ pc[c] \in {"update", "u_email", "u_phone", "u_commit"}
                 /\ pc'[c] = "rollback" )
               => (members' = members /\ ~wrote'[c])
            /\ req[c].op = "update" => RollbackKeeps(c)]_vars

\* an update with a valid name and an email another row holds ended with
\* AlreadyExists, and its row has the name its create stored
C23_Witness ==
    \E c \in Calls :
        /\ req[c].op = "update" /\ pc[c] = "done"
        /\ validate_name(req[c].name).ok
        /\ result[c].kind = "AlreadyExists" /\ result[c].field = "email"
        /\ \E r \in members :
              r.id = req[c].id /\ r.name = NameJo /\ r.name # Strip(req[c].name)

\* C24: an update whose commit the store rejects for a uniqueness violation,
\* its email or phone having been committed by another update or a create
\* after its pre-check, writes nothing and fails with AlreadyExists for a
\* field whose unique constraint was violated.
C24_UpdateRaceLoser ==
    \A c \in Calls :
        (req[c].op = "update" /\ violated[c] # {}) =>
            /\ ~wrote[c]
            /\ result[c].kind = "AlreadyExists"
            /\ result[c].field \in violated[c]

\* C25: create validates, then looks the email up, then the phone, and fails
\* at the first step that fails: a create with an invalid field fails with
\* InvalidField whether or not a row holds its email or phone; a valid create
\* whose email a row holds fails with AlreadyExists for the email, also when
\* a row holds its phone; and only a create whose email no row held fails
\* with AlreadyExists for the phone at the phone pre-check.
C25_CreateStepOrder ==
    [][\A c \in Calls :
         /\ (pc[c] = "create" /\ Acts(c)) =>
               IF \/ ~validate_name(req[c].name).ok
                  \/ ~validate_email(req[c].email).ok
                  \/ ~validate_phone(req[c].phone).ok
               THEN /\ pc'[c] = "rollback"
                    /\ result'[c].kind = "InvalidField"
                    /\ members' = members
               ELSE IF EmailHeld(NormalForm(req[c].email))
               THEN /\ pc'[c] = "rollback"
                    /\ result'[c].kind = "AlreadyExists"
                    /\ result'[c].field = "email"
                    /\ members' = members
               ELSE /\ pc'[c] = IF PhoneAbsent(req[c].phone)
                                THEN "c_commit" ELSE "c_phone"
                    /\ result'[c].kind = "none"
         /\ (pc[c] = "c_phone" /\ Acts(c)) =>
               IF PhoneHeld(Strip(req[c].phone))
               THEN /\ pc'[c] = "rollback"
                    /\ result'[c].kind = "AlreadyExists"
                    /\ result'[c].field = "phone"
                    /\ members' = members
               ELSE pc'[c] = "c_commit"
         /\ req[c].op = "create" => RollbackKeeps(c)]_vars

\* a create whose email and phone a row holds ended with AlreadyExists for the
\* email, and a create with an invalid name whose email a row holds ended
\* with InvalidField
C25_Witness ==
    /\ \E c \in Calls :
          /\ req[c].op = "create" /\ pc[c] = "done"
          /\ EmailHeld(NormalForm(req[c].email))
          /\ ~PhoneAbsent(req[c].phone) /\ PhoneHeld(Strip(req[c].phone))
          /\ ~wrote[c] /\ violated[c] = {}
          /\ result[c].kind = "AlreadyExists" /\ result[c].field = "email"
    /\ \E c \in Calls :
          /\ req[c].op = "create" /\ pc[c] = "done"
          /\ ~validate_name(req[c].name).ok
          /\ EmailHeld(NormalForm(req[c].email))
          /\ result[c].kind = "InvalidField" /\ result[c].field = "name"

\* C26: every email in the table is trimmed and in lower case, the value
\* validate_email returns for it, and no two rows hold emails that are the
\* same up to letter case.
C26_EmailsNormalForm ==
    /\ \A r \in members :
          /\ r.email = Lower(Strip(r.email))
          /\ validate_email(r.email) = Ok(r.email)
    /\ \A r, q \in members : Lower(r.email) = Lower(q.email) => r = q

\* an update stored an email it was given in upper case, and a create of the
\* same email, padded and in upper case, was refused
C26_Witness ==
    \E c, d \in Calls :
        /\ req[c].op = "update" /\ pc[c] = "done" /\ result[c].kind = "ok"
        /\ wrote[c]
        /\ req[c].email # None /\ req[c].email # NormalForm(req[c].email)
        /\ \E r \in members :
              r.id = req[c].id /\ r.email = NormalForm(req[c].email)
        /\ req[d].op = "create" /\ pc[d] = "done"
        /\ req[d].email # req[c].email
        /\ NormalForm(req[d].email) = NormalForm(req[c].email)
        /\ result[d].kind = "AlreadyExists" /\ result[d].field = "email"

\* C27: an update that fails with InvalidField names a field the request
\* supplied, whose supplied value its validator rejects, so an update that
\* supplies valid values only never fails with InvalidField; and no row holds
\* the placeholder name or the placeholder email the validation is called
\* with.
C27_InvalidFieldIsSupplied ==
    /\ \A c \in Calls :
          (req[c].op = "update" /\ result[c].kind = "InvalidField") =>
              /\ result[c].field \in Supplied(c)
              /\ result[c].value = req[c][result[c].field]
              /\ CASE result[c].field = "name" -> ~validate_name(req[c].name).ok
                   [] result[c].field = "email" -> ~validate_email(req[c].email).ok
                   [] result[c].field = "phone" -> ~validate_phone(req[c].phone).ok
                   [] OTHER -> FALSE
    /\ \A r \in members :
          /\ r.name # DummyName
          /\ r.email # <<"d","u","m","m","y","@","e","x","a","m","p","l","e",
                         ".","c","o","m">>

\* an update that supplied a valid phone alone wrote it, and the row keeps
\* the name and email it had
C27_Witness ==
    \E c \in Calls :
        /\ req[c].op = "update" /\ pc[c] = "done"
        /\ Supplied(c) = {"phone"} /\ validate_phone(req[c].phone).ok
        /\ result[c].kind = "ok" /\ wrote[c]
        /\ \E r \in members :
              /\ r.id = req[c].id
              /\ r.phone = Strip(req[c].phone)
              /\ r.name = NameJo
              /\ r.email = EmailA

\* the value an update stores for a field it supplies
StoredValue(c, col) ==
    IF col = "name" THEN Strip(req[c].name)
    ELSE IF col = "email" THEN NormalForm(req[c].email)
    ELSE IF PhoneAbsent(req[c].phone) THEN None ELSE Strip(req[c].phone)

\* C28: when two updates of one member that supply no field in common have
\* both succeeded, and no third call has written, the row holds the value
\* each of them supplied for each of its fields, in whatever order the two
\* loaded the row and committed.
C28_DisjointUpdatesBothKept ==
    \A c, d \in Calls :
        ( /\ c # d
          /\ req[c].op = "update" /\ req[d].op = "update"
          /\ req[c].id = req[d].id
          /\ Supplied(c) \cap Supplied(d) = {}
          /\ pc[c] = "done" /\ result[c].kind = "ok"
          /\ pc[d] = "done" /\ result[d].kind = "ok"
          /\ \A e \in Calls \ {c, d} : ~wrote[e] )
        => \E r \in members :
              /\ r.id = req[c].id
              /\ \A col \in Supplied(c) : r[col] = StoredValue(c, col)
              /\ \A col \in Supplied(d) : r[col] = StoredValue(d, col)

\* an update of the name and an update of the email and phone of the same
\* member each loaded the row before the other committed; both succeeded and
\* the row holds the new name, email and phone
C28_Witness ==
    \E c, d \in Calls :
        /\ req[c].op = "update" /\ req[d].op = "update"
        /\ req[c].id = req[d].id
        /\ Supplied(c) = {"name"} /\ Supplied(d) = {"email", "phone"}
        /\ pc[c] = "done" /\ result[c].kind = "ok" /\ wrote[c]
        /\ pc[d] = "done" /\ result[d].kind = "ok" /\ wrote[d]
        /\ \E r \in members :
              /\ r.id = req[c].id
              /\ r.name = Strip(req[c].name)
              /\ r.email = NormalForm(req[d].email)
              /\ r.phone = Strip(req[d].phone)
              /\ loc[d].member.name # r.name
              /\ loc[c].member.email # r.email
====
